---- MODULE Spec2Model ----
(***************************************************************************)
(* A model of pytube/cipher.py: the three transform functions (reverse,    *)
(* splice, swap), the resolver map_functions, the memoized table builder   *)
(* get_transform_map and the memoized decoder get_signature.               *)
(*                                                                         *)
(* A Python list or str is a TLA+ sequence; Python index i is TLA+ index   *)
(* i + 1.  Transform arguments are the values of int() over a \d+ match,   *)
(* hence naturals.                                                         *)
(***************************************************************************)
EXTENDS Integers, Sequences, FiniteSets, TLC

(* ------------------------------ bounds --------------------------------- *)
\* longest transform plan
MaxPlanLen == 2
\* calls of get_signature in one run of the cached decoder
MaxRequests == 3
\* longest list handed to a transform function on its own
MaxLen == 4
\* largest transform argument
MaxArg == 5
\* number of consecutive applications of transform functions on one list
MaxApply == 2

(* ------------------------- Python list helpers ------------------------- *)
Min(x, y) == IF x <= y THEN x ELSE y

\* arr[lo:hi] for 0 <= lo, 0 <= hi (Python clamps both ends to len(arr))
Slice(arr, lo, hi) == SubSeq(arr, Min(lo, Len(arr)) + 1, Min(hi, Len(arr)))

\* arr[lo:]
SliceFrom(arr, lo) == Slice(arr, lo, Len(arr))

(* ------------------------- transform functions ------------------------- *)
\* a reverse that copies without inverting: arr[::1]
reverseCopy(arr, b) == arr

\* arr[::-1]
reverse(arr, b) == [i \in 1..Len(arr) |-> arr[Len(arr) + 1 - i]]

\* splice as JavaScript's a.splice(0, b) leaves the array: arr[b:]
spliceDrop(arr, b) == SliceFrom(arr, b)

\* arr[:b] + arr[b * 2:]
splice(arr, b) == Slice(arr, 0, b) \o SliceFrom(arr, b * 2)

\* r = b % len(arr); list(chain([arr[r]], arr[1:r], [arr[0]], arr[r + 1:]))
\* (len(arr) = 0 raises ZeroDivisionError: callers test SwapRaises first)
swap(arr, b) ==
    LET r == b % Len(arr)
    IN  <<arr[r + 1]>> \o Slice(arr, 1, r) \o <<arr[1]>> \o SliceFrom(arr, r + 1)

\* b % len(arr) with len(arr) = 0
SwapRaises(arr) == Len(arr) = 0

\* tmap[name](signature, int(argument)): the call of the looked-up function
Apply(fn, arr, b) ==
    CASE fn = "reverse" -> reverse(arr, b)
      [] fn = "splice"  -> splice(arr, b)
      [] fn = "swap"    -> swap(arr, b)

(* ------------------------------ outcomes ------------------------------- *)
\* a raised exception, by its Python class name
Raise(e) == [kind |-> "error", val |-> e]
\* a returned value
Return(v) == [kind |-> "value", val |-> v]
None == [kind |-> "none", val |-> "None"]

(* --------------------- the script asset (base.js) ---------------------- *)
(* The JavaScript text is modelled by the parts the regular expressions    *)
(* of this file look at.  A transform function's text is the sequence of   *)
(* its brace groups, each the body one mapper pattern matches, or a body   *)
(* none matches.  A call of the plan is its "<var>." prefix ("" when the   *)
(* text has no dot), its function name and the digits of its second        *)
(* argument (<<>> when there are none).  The searches of                   *)
(* get_initial_function_name and get_transform_plan are taken to have      *)
(* matched: a script is the plan and the object they lead to.              *)
RevBody == "{a.reverse()}"
SplBody == "{a.splice(0,b)}"
SwpBody == "{var c=a[0];a[0]=a[b%a.length];a[b]=c}"
OtherBody == "{a.push(b)}"

\* re.search(pattern, js_func), a pattern being named by the body it matches
re_search(pattern, js_func) == \E i \in 1..Len(js_func) : js_func[i] = pattern

\* the (pattern, fn) pairs of map_functions, in their order
mapper == << [pattern |-> RevBody, fn |-> "reverse"],
             [pattern |-> SplBody, fn |-> "splice"],
             [pattern |-> SwpBody, fn |-> "swap"] >>

\* a resolver in which the last matching pair wins
map_functionsLast(js_func) ==
    LET hits == {i \in 1..Len(mapper) : re_search(mapper[i].pattern, js_func)}
    IN  IF hits = {} THEN Raise("RegexMatchError")
        ELSE Return(mapper[CHOOSE i \in hits : \A j \in hits : j <= i].fn)

\* for pattern, fn in mapper: if re.search(pattern, js_func): return fn
\* raise RegexMatchError
map_functions(js_func) ==
    LET hits == {i \in 1..Len(mapper) : re_search(mapper[i].pattern, js_func)}
    IN  IF hits = {} THEN Raise("RegexMatchError")
        ELSE Return(mapper[CHOOSE i \in hits : \A j \in hits : i <= j].fn)

\* regex_search(pattern, js, group=1) of get_transform_object: the
\* definitions of "var <var>={...};", split on ", "
get_transform_object(js, v) ==
    IF v = js.obj.name THEN Return(js.obj.defs) ELSE Raise("RegexMatchError")

\* the body of get_transform_map: mapper[name] = map_functions(function)
\* for each obj in order, a later definition of a name replacing an earlier
get_transform_map(js, v) ==
    LET transform_object == get_transform_object(js, v)
    IN  IF transform_object.kind = "error" THEN transform_object
        ELSE LET defs == transform_object.val
                 fns == [i \in 1..Len(defs) |-> map_functions(defs[i].func)]
             IN  IF \E i \in 1..Len(defs) : fns[i].kind = "error"
                 THEN Raise("RegexMatchError")
                 ELSE Return([n \in {defs[i].name : i \in 1..Len(defs)} |->
                        fns[CHOOSE i \in 1..Len(defs) :
                              /\ defs[i].name = n
                              /\ \A j \in 1..Len(defs) :
                                    defs[j].name = n => j <= i].val])

\* int(argument) of a \d+ match: the digits read in base ten
RECURSIVE int(_)
int(digits) ==
    IF digits = <<>> THEN 0
    ELSE 10 * int(SubSeq(digits, 1, Len(digits) - 1)) + digits[Len(digits)]

\* parse_function: regex_search(r'\w+\.(\w+)\(\w,(\d+)\)', js_func, groups=True)
parse_function(js_func) ==
    IF js_func.var # "" /\ js_func.digits # <<>>
    THEN Return(<<js_func.name, js_func.digits>>)
    ELSE Raise("RegexMatchError")

\* var, _ = tplan[0].split('.')
split_var(js_func) ==
    IF js_func.var # "" THEN Return(js_func.var) ELSE Raise("ValueError")

\* ''.join(signature)
RECURSIVE join(_)
join(signature) ==
    IF signature = <<>> THEN "" ELSE Head(signature) \o join(Tail(signature))

(* --------------------------- memoize (helpers) ------------------------- *)
(* pytube.helpers.memoize wraps a function in a get-or-compute over a      *)
(* dictionary: if key not in cache: cache[key] = func(args);               *)
(* return cache[key].  It takes no lock, and a call that raises stores     *)
(* nothing.                                                                *)
\* the key of a memoized call: its positional arguments
SigKeyJsOnly(js, ciphered_signature) == <<js, <<>>>>
\* @memoize def get_signature(js, ciphered_signature)
SigKey(js, ciphered_signature) == <<js, ciphered_signature>>
\* @memoize def get_transform_map(js, var)
MapKey(js, v) == <<js, v>>

\* key in cache
InCache(cache, key) == key \in DOMAIN cache
\* cache[key] = value
Store(cache, key, value) == (key :> value) @@ cache
EmptyCache == [k \in {} |-> None]
EmptyMap == [n \in {} |-> "reverse"]
Count(f, k) == IF k \in DOMAIN f THEN f[k] ELSE 0

(* ------------------------------- state --------------------------------- *)
Threads == {"t1", "t2"}

VARIABLES
    lst,        \* the list a transform function is first applied to
    num,        \* the integer argument of the applications
    cur,        \* the list after the applications so far
    trace,      \* the functions applied so far, in order
    pool,       \* the (js, ciphered_signature) pairs callers may ask for
    budget,     \* calls of get_signature still to be made
    cache_map,  \* get_transform_map.cache
    cache_sig,  \* get_signature.cache
    scans,      \* per (js, var): runs of the body of get_transform_map
    log,        \* the finished calls: (js, ciphered_signature, outcome)
    pc,         \* per thread: where its call of get_signature stands
    req,        \* per thread: the arguments of its call
    tplan,      \* per thread: local tplan
    var,        \* per thread: local var
    tmap,       \* per thread: local tmap
    signature,  \* per thread: local signature
    idx,        \* per thread: position of the for loop in tplan
    applied,    \* per thread: the calls applied, with their results
    outcome     \* per thread: what the call returned or raised

opVars == <<lst, num, cur, trace>>
sharedVars == <<pool, budget, cache_map, cache_sig, scans, log>>
localVars == <<pc, req, tplan, var, tmap, signature, idx, applied, outcome>>
frameVars == <<req, tplan, var, tmap, signature, idx, applied, outcome>>
vars == <<lst, num, cur, trace, pool, budget, cache_map, cache_sig, scans, log,
          pc, req, tplan, var, tmap, signature, idx, applied, outcome>>

(* ------------------------------- inputs -------------------------------- *)
Def(n, f) == [name |-> n, func |-> f]
CallExpr(v, n, d) == [var |-> v, name |-> n, digits |-> d]
Script(p, o) == [plan |-> p, obj |-> o]
Request(js, c) == [js |-> js, ciphered_signature |-> c]

PlanDigits == {<<0>>, <<1>>, <<2>>}
\* DE.AJ(a,0) ... DE.zz(a,2), and two texts parse_function does not match:
\* DE.AJ(a) and VR(a,1)
Calls ==
    {CallExpr("DE", n, d) : n \in {"AJ", "VR", "kT", "zz"}, d \in PlanDigits}
    \cup {CallExpr("DE", "AJ", <<>>), CallExpr("", "VR", <<1>>)}
Plans == UNION {[1..k -> Calls] : k \in 1..MaxPlanLen}

FuncTexts ==
    {<<RevBody>>, <<SplBody>>, <<SwpBody>>, <<OtherBody>>,
     <<SplBody, RevBody>>, <<SwpBody, SplBody>>, <<OtherBody, SwpBody>>}
\* var DE={AJ:function(a){a.reverse()}, VR:function(a,b){a.splice(0,b)},
\*         kT:function(a,b){var c=a[0];a[0]=a[b%a.length];a[b]=c}};
ObjGood ==
    [name |-> "DE",
     defs |-> <<Def("AJ", <<RevBody>>), Def("VR", <<SplBody>>),
                Def("kT", <<SwpBody>>)>>]
ObjMixed ==
    [name |-> "DE",
     defs |-> <<Def("kT", <<OtherBody, SwpBody>>), Def("AJ", <<SplBody, RevBody>>),
                Def("VR", <<SwpBody, SplBody>>)>>]
\* ObjGood with a fourth function no plan calls, of an unknown shape
ObjUnknown ==
    [name |-> "DE", defs |-> Append(ObjGood.defs, Def("qq", <<OtherBody>>))]
\* the functions are in an object the plan does not name
ObjElsewhere == [name |-> "Xy", defs |-> ObjGood.defs]
Objs == {ObjGood, ObjMixed, ObjUnknown, ObjElsewhere}
ObjsAnyShape ==
    {[name |-> "DE",
      defs |-> <<Def("AJ", f[1]), Def("VR", f[2]), Def("kT", f[3])>>] :
        f \in [1..3 -> FuncTexts]}

abcdef == <<"a", "b", "c", "d", "e", "f">>
Ciphered == {abcdef, <<"a", "b">>, <<"a">>, <<>>}

\* the plan DE.AJ(a,0);DE.VR(a,2)
PlanE2E == <<CallExpr("DE", "AJ", <<0>>), CallExpr("DE", "VR", <<2>>)>>
PlanSwap == <<CallExpr("DE", "kT", <<1>>), CallExpr("DE", "AJ", <<0>>)>>
PlanName == <<CallExpr("DE", "VR", <<1>>), CallExpr("DE", "zz", <<0>>)>>

\* one script, one ciphered signature
SingleRequests ==
    {Request(Script(p, o), c) : p \in Plans, o \in Objs, c \in Ciphered}
    \cup {Request(Script(p, o), abcdef) : p \in {PlanE2E, PlanSwap}, o \in ObjsAnyShape}

\* what the callers of the cached decoder ask for
PoolRequests ==
    {Request(js, c) :
        js \in {Script(PlanE2E, ObjGood), Script(PlanSwap, ObjMixed),
                 Script(PlanName, ObjGood), Script(PlanE2E, ObjUnknown)},
        c \in {abcdef, <<"a", "b">>}}

(* -------------------------------- Init --------------------------------- *)
Lists == UNION {[1..k -> 1..4] : k \in 0..MaxLen}

IdleOps ==
    /\ lst = <<>> /\ num = 0 /\ cur = <<>> /\ trace = <<>>

NoRequest == Request(Script(PlanE2E, ObjGood), <<>>)

IdleLocals ==
    /\ pc = [t \in Threads |-> "idle"]
    /\ req = [t \in Threads |-> NoRequest]
    /\ tplan = [t \in Threads |-> <<>>]
    /\ var = [t \in Threads |-> ""]
    /\ tmap = [t \in Threads |-> EmptyMap]
    /\ signature = [t \in Threads |-> <<>>]
    /\ idx = [t \in Threads |-> 0]
    /\ applied = [t \in Threads |-> <<>>]
    /\ outcome = [t \in Threads |-> None]

EmptyCaches ==
    /\ cache_map = EmptyCache /\ cache_sig = EmptyCache
    /\ scans = [k \in {} |-> 0] /\ log = {}

\* the transform functions on their own: any list, any argument
InitOps ==
    /\ lst \in Lists /\ num \in 0..MaxArg /\ cur = lst /\ trace = <<>>
    /\ pool = {} /\ budget = 0 /\ EmptyCaches /\ IdleLocals

\* one call of get_signature in a fresh process
InitDecode ==
    /\ IdleOps /\ EmptyCaches /\ IdleLocals
    /\ \E r \in SingleRequests : pool = {r}
    /\ budget = 1

\* a process serving MaxRequests calls
Init ==
    /\ IdleOps /\ EmptyCaches /\ IdleLocals
    /\ pool = PoolRequests
    /\ budget = MaxRequests

(* ------------------ the transform functions on their own -------------- *)
\* another application follows unless the last one raised
CanApply ==
    /\ Len(trace) < MaxApply
    /\ \A i \in 1..Len(trace) : trace[i] # "ZeroDivisionError"

\* cur = reverse(cur, num)
ApplyReverse ==
    /\ CanApply
    /\ cur' = reverse(cur, num)
    /\ trace' = Append(trace, "reverse")
    /\ UNCHANGED <<lst, num, sharedVars, localVars>>

\* cur = splice(cur, num)
ApplySplice ==
    /\ CanApply
    /\ cur' = splice(cur, num)
    /\ trace' = Append(trace, "splice")
    /\ UNCHANGED <<lst, num, sharedVars, localVars>>

\* cur = swap(cur, num), which raises on the empty list
ApplySwap ==
    /\ CanApply
    /\ IF SwapRaises(cur)
       THEN cur' = cur /\ trace' = Append(trace, "ZeroDivisionError")
       ELSE cur' = swap(cur, num) /\ trace' = Append(trace, "swap")
    /\ UNCHANGED <<lst, num, sharedVars, localVars>>

NextOps == ApplyReverse \/ ApplySplice \/ ApplySwap

SpecOps == InitOps /\ [][NextOps]_vars

(* ----------------------------- get_signature --------------------------- *)
\* get_transform_plan(js): the calls of the entry function, split on ";"
get_transform_plan(js) == js.plan

\* a loop body that leaves the signature alone when tmap lacks the name
stepSkipUnknown(tm, sig, js_func) ==
    LET parsed == parse_function(js_func)
    IN  IF parsed.kind = "error" THEN parsed
        ELSE LET name == parsed.val[1]
                 argument == parsed.val[2]
             IN  IF name \notin DOMAIN tm THEN Return(sig)
                 ELSE IF tm[name] = "swap" /\ SwapRaises(sig)
                      THEN Raise("ZeroDivisionError")
                 ELSE Return(Apply(tm[name], sig, int(argument)))

\* name, argument = parse_function(js_func)
\* signature = tmap[name](signature, int(argument))
step(tm, sig, js_func) ==
    LET parsed == parse_function(js_func)
    IN  IF parsed.kind = "error" THEN parsed
        ELSE LET name == parsed.val[1]
                 argument == parsed.val[2]
             IN  IF name \notin DOMAIN tm THEN Raise("KeyError")
                 ELSE IF tm[name] = "swap" /\ SwapRaises(sig)
                      THEN Raise("ZeroDivisionError")
                 ELSE Return(Apply(tm[name], sig, int(argument)))

\* the exception leaves get_signature and its memoize wrapper
Fail(t, e) ==
    /\ outcome' = [outcome EXCEPT ![t] = Raise(e)]
    /\ pc' = [pc EXCEPT ![t] = "done"]

\* a caller calls get_signature(js, ciphered_signature)
Call(t) ==
    /\ pc[t] = "idle"
    /\ budget > 0
    /\ \E r \in pool : req' = [req EXCEPT ![t] = r]
    /\ budget' = budget - 1
    /\ pc' = [pc EXCEPT ![t] = "sig_lookup"]
    /\ UNCHANGED <<opVars, pool, cache_map, cache_sig, scans, log,
                   tplan, var, tmap, signature, idx, applied, outcome>>

\* the same, when no other call is running
CallAlone(t) ==
    /\ \A u \in Threads : pc[u] = "idle"
    /\ Call(t)

\* memoize wrapper of get_signature: serve the cached string, or go on
SigLookup(t) ==
    /\ pc[t] = "sig_lookup"
    /\ LET key == SigKey(req[t].js, req[t].ciphered_signature)
       IN  IF InCache(cache_sig, key)
           THEN /\ outcome' = [outcome EXCEPT ![t] = cache_sig[key]]
                /\ pc' = [pc EXCEPT ![t] = "done"]
           ELSE /\ pc' = [pc EXCEPT ![t] = "plan"]
                /\ UNCHANGED outcome
    /\ UNCHANGED <<opVars, sharedVars, req, tplan, var, tmap, signature, idx, applied>>

\* tplan = get_transform_plan(js); var, _ = tplan[0].split('.')
GetPlan(t) ==
    /\ pc[t] = "plan"
    /\ LET plan == get_transform_plan(req[t].js)
           v == split_var(plan[1])
       IN  /\ tplan' = [tplan EXCEPT ![t] = plan]
           /\ IF v.kind = "error"
              THEN Fail(t, v.val) /\ UNCHANGED var
              ELSE /\ var' = [var EXCEPT ![t] = v.val]
                   /\ pc' = [pc EXCEPT ![t] = "map_lookup"]
                   /\ UNCHANGED outcome
    /\ UNCHANGED <<opVars, sharedVars, req, tmap, signature, idx, applied>>

\* signature = [s for s in ciphered_signature], before the loop
EnterLoop(t) ==
    /\ signature' = [signature EXCEPT ![t] = req[t].ciphered_signature]
    /\ idx' = [idx EXCEPT ![t] = 1]
    /\ pc' = [pc EXCEPT ![t] = "loop"]

\* a get_transform_map without its memoize decorator
MapLookupNoMemo(t) ==
    /\ pc[t] = "map_lookup"
    /\ pc' = [pc EXCEPT ![t] = "map_build"]
    /\ UNCHANGED <<tmap, signature, idx>>
    /\ UNCHANGED <<opVars, sharedVars, req, tplan, var, applied, outcome>>

\* memoize wrapper of get_transform_map: serve the cached table, or build
MapLookup(t) ==
    /\ pc[t] = "map_lookup"
    /\ LET key == MapKey(req[t].js, var[t])
       IN  IF InCache(cache_map, key)
           THEN /\ tmap' = [tmap EXCEPT ![t] = cache_map[key]]
                /\ EnterLoop(t)
           ELSE /\ pc' = [pc EXCEPT ![t] = "map_build"]
                /\ UNCHANGED <<tmap, signature, idx>>
    /\ UNCHANGED <<opVars, sharedVars, req, tplan, var, applied, outcome>>

\* the body of get_transform_map runs
MapBuild(t) ==
    /\ pc[t] = "map_build"
    /\ LET key == MapKey(req[t].js, var[t])
           built == get_transform_map(req[t].js, var[t])
       IN  /\ scans' = Store(scans, key, Count(scans, key) + 1)
           /\ IF built.kind = "error"
              THEN Fail(t, built.val) /\ UNCHANGED tmap
              ELSE /\ tmap' = [tmap EXCEPT ![t] = built.val]
                   /\ pc' = [pc EXCEPT ![t] = "map_store"]
                   /\ UNCHANGED outcome
    /\ UNCHANGED <<opVars, pool, budget, cache_map, cache_sig, log,
                   req, tplan, var, signature, idx, applied>>

\* memoize wrapper: cache[key] = the table just built
MapStore(t) ==
    /\ pc[t] = "map_store"
    /\ cache_map' = Store(cache_map, MapKey(req[t].js, var[t]), tmap[t])
    /\ pc' = [pc EXCEPT ![t] = "map_return"]
    /\ UNCHANGED <<opVars, pool, budget, cache_sig, scans, log,
                   req, tplan, var, tmap, signature, idx, applied, outcome>>

\* memoize wrapper: return cache[key]
MapReturn(t) ==
    /\ pc[t] = "map_return"
    /\ tmap' = [tmap EXCEPT ![t] = cache_map[MapKey(req[t].js, var[t])]]
    /\ EnterLoop(t)
    /\ UNCHANGED <<opVars, sharedVars, req, tplan, var, applied, outcome>>

\* one turn of "for js_func in tplan"
LoopStep(t) ==
    /\ pc[t] = "loop"
    /\ idx[t] <= Len(tplan[t])
    /\ LET js_func == tplan[t][idx[t]]
           r == step(tmap[t], signature[t], js_func)
       IN  IF r.kind = "error"
           THEN Fail(t, r.val) /\ UNCHANGED <<signature, idx, applied>>
           ELSE /\ signature' = [signature EXCEPT ![t] = r.val]
                /\ idx' = [idx EXCEPT ![t] = idx[t] + 1]
                /\ applied' = [applied EXCEPT ![t] =
                       Append(applied[t],
                              [at |-> idx[t], call |-> js_func, out |-> r.val])]
                /\ UNCHANGED <<pc, outcome>>
    /\ UNCHANGED <<opVars, sharedVars, req, tplan, var, tmap>>

\* return ''.join(signature): the value the memoize wrapper will cache
LoopExit(t) ==
    /\ pc[t] = "loop"
    /\ idx[t] > Len(tplan[t])
    /\ outcome' = [outcome EXCEPT ![t] = Return(join(signature[t]))]
    /\ pc' = [pc EXCEPT ![t] = "sig_store"]
    /\ UNCHANGED <<opVars, sharedVars, req, tplan, var, tmap, signature, idx, applied>>

\* memoize wrapper: cache[key] = the string just computed
SigStore(t) ==
    /\ pc[t] = "sig_store"
    /\ cache_sig' = Store(cache_sig,
                          SigKey(req[t].js, req[t].ciphered_signature), outcome[t])
    /\ pc' = [pc EXCEPT ![t] = "sig_return"]
    /\ UNCHANGED <<opVars, pool, budget, cache_map, scans, log, frameVars>>

\* memoize wrapper: return cache[key]
SigReturn(t) ==
    /\ pc[t] = "sig_return"
    /\ outcome' = [outcome EXCEPT ![t] =
                     cache_sig[SigKey(req[t].js, req[t].ciphered_signature)]]
    /\ pc' = [pc EXCEPT ![t] = "done"]
    /\ UNCHANGED <<opVars, sharedVars, req, tplan, var, tmap, signature, idx, applied>>

\* the caller takes the result or the exception; the frame is gone
Finish(t) ==
    /\ pc[t] = "done"
    /\ log' = log \cup {[js |-> req[t].js,
                          ciphered_signature |-> req[t].ciphered_signature,
                          outcome |-> outcome[t]]}
    /\ pc' = [pc EXCEPT ![t] = "idle"]
    /\ req' = [req EXCEPT ![t] = NoRequest]
    /\ tplan' = [tplan EXCEPT ![t] = <<>>]
    /\ var' = [var EXCEPT ![t] = ""]
    /\ tmap' = [tmap EXCEPT ![t] = EmptyMap]
    /\ signature' = [signature EXCEPT ![t] = <<>>]
    /\ idx' = [idx EXCEPT ![t] = 0]
    /\ applied' = [applied EXCEPT ![t] = <<>>]
    /\ outcome' = [outcome EXCEPT ![t] = None]
    /\ UNCHANGED <<opVars, pool, budget, cache_map, cache_sig, scans>>

\* the steps of a call once made
Run(t) ==
    \/ SigLookup(t) \/ GetPlan(t) \/ MapLookup(t) \/ MapBuild(t)
    \/ MapStore(t) \/ MapReturn(t) \/ LoopStep(t) \/ LoopExit(t)
    \/ SigStore(t) \/ SigReturn(t) \/ Finish(t)

\* one call of get_signature
NextDecode == \E t \in Threads : CallAlone(t) \/ Run(t)
SpecDecode == InitDecode /\ [][NextDecode]_vars

\* calls one after another, as the module is written to be used
Next == \E t \in Threads : CallAlone(t) \/ Run(t)
Spec == Init /\ [][Next]_vars

\* calls from several threads, interleaved at every access to a cache
NextThreads == \E t \in Threads : Call(t) \/ Run(t)
SpecThreads == Init /\ [][NextThreads]_vars

(* ------------------- get_signature run without a cache ----------------- *)
\* for js_func in tplan: ...; return ''.join(signature)
RECURSIVE loop(_, _, _, _)
loop(tm, sig, plan, k) ==
    IF k > Len(plan) THEN Return(join(sig))
    ELSE LET r == step(tm, sig, plan[k])
         IN  IF r.kind = "error" THEN Raise(r.val)
             ELSE loop(tm, r.val, plan, k + 1)

\* the body of get_signature, both caches empty, nothing else running
get_signature(js, ciphered_signature) ==
    LET plan == get_transform_plan(js)
        v == split_var(plan[1])
    IN  IF v.kind = "error" THEN Raise(v.val)
        ELSE LET tm == get_transform_map(js, v.val)
             IN  IF tm.kind = "error" THEN Raise(tm.val)
                 ELSE loop(tm.val, ciphered_signature, plan, 1)

(* ====================== the transform functions ======================= *)
\* the list with the order of its elements inverted
Mirrored(a, c) ==
    /\ Len(c) = Len(a)
    /\ \A i \in 1..Len(a) : c[i] = a[Len(a) + 1 - i]

\* the list without its first b elements, the rest in their order
CropFront(a, b, c) ==
    /\ Len(c) = (IF b >= Len(a) THEN 0 ELSE Len(a) - b)
    /\ \A i \in 1..Len(c) : c[i] = a[b + i]

\* the list with positions 0 and r = b mod len(a) exchanged
RotarySwap(a, b, c) ==
    LET r == b % Len(a)
    IN  /\ Len(c) = Len(a)
        /\ \A i \in 1..Len(a) :
              c[i] = (IF i = 1 THEN a[r + 1] ELSE IF i = r + 1 THEN a[1] ELSE a[i])

\* C2: for every list a and b >= 0, splice(a, b) is a without its first b
\* elements, the others in their order (empty when b >= len(a)); splice of
\* [1,2,3,4] and 2 is [3,4].
C2_SpliceDropsFront ==
    trace = <<"splice">> =>
        /\ CropFront(lst, num, cur)
        /\ (lst = <<1, 2, 3, 4>> /\ num = 2 => cur = <<3, 4>>)

\* C3: for every non-empty list a and b >= 0, swap(a, b) has the length of a
\* and equals a but for positions 0 and r = b mod len(a), which are
\* exchanged; it is a when r = 0; swap of [1,2,3,4] and 2 is [3,2,1,4].
C3_SwapExchanges ==
    trace = <<"swap">> =>
        /\ RotarySwap(lst, num, cur)
        /\ (num % Len(lst) = 0 => cur = lst)
        /\ (lst = <<1, 2, 3, 4>> /\ num = 2 => cur = <<3, 2, 1, 4>>)

\* C4: for every list a and every argument b, reverse(a, b) is a with the
\* order of its elements inverted, and reverse applied twice gives a back;
\* reverse of [1,2,3,4] is [4,3,2,1].
C4_ReverseInverts ==
    /\ (trace = <<"reverse">> =>
          /\ Mirrored(lst, cur)
          /\ (lst = <<1, 2, 3, 4>> => cur = <<4, 3, 2, 1>>))
    /\ (trace = <<"reverse", "reverse">> => cur = lst)

\* reverse has turned [1,2,3,4] around under a non-zero argument
C4_Witness ==
    /\ trace = <<"reverse">> /\ lst = <<1, 2, 3, 4>> /\ num = 3
    /\ cur = <<4, 3, 2, 1>>

\* C5: for every non-empty list a and b >= 0, swap(swap(a, b), b) is a.
C5_SwapTwice ==
    trace = <<"swap", "swap">> => cur = lst

(* ============================ get_signature =========================== *)
\* the signature a call of the loop was applied to
Before(t, k) ==
    IF k = 1 THEN req[t].ciphered_signature ELSE applied[t][k - 1].out

\* the operation a name of the plan stands for, applied as the contract
\* describes it
Canonical(fn, a, b, c) ==
    CASE fn = "reverse" -> Mirrored(a, c)
      [] fn = "splice"  -> CropFront(a, b, c)
      [] fn = "swap"    -> RotarySwap(a, b, c)

\* C1: get_signature returns the ciphered signature folded through the calls
\* of the plan in plan order, each applied once with its own argument and
\* the operation its name resolves to; for the plan DE.AJ(a,0);DE.VR(a,2)
\* and "abcdef" the value after the first call is "fedcba" and the result
\* is "dcba".
C1_DecodeFoldsPlan ==
    \A t \in Threads :
        pc[t] = "done" /\ idx[t] > Len(tplan[t]) /\ outcome[t].kind = "value" =>
            /\ Len(applied[t]) = Len(tplan[t])
            /\ \A k \in 1..Len(tplan[t]) :
                  /\ applied[t][k].call = tplan[t][k]
                  /\ Canonical(tmap[t][tplan[t][k].name], Before(t, k),
                               int(tplan[t][k].digits), applied[t][k].out)
            /\ outcome[t].val = join(Before(t, Len(tplan[t]) + 1))
            /\ (req[t] = Request(Script(PlanE2E, ObjGood), abcdef) =>
                  /\ join(applied[t][1].out) = "fedcba"
                  /\ outcome[t].val = "dcba")

\* the first mapper pattern, in the order reverse, splice, swap, that the
\* text of a function matches
FirstShape(js_func) ==
    IF re_search(RevBody, js_func) THEN "reverse"
    ELSE IF re_search(SplBody, js_func) THEN "splice"
    ELSE "swap"

KnownShape(js_func) ==
    \E b \in {RevBody, SplBody, SwpBody} : re_search(b, js_func)

\* C7: each function of the object is resolved to the first of reverse,
\* splice, swap whose pattern its text matches; if a function of the object
\* matches none, building the table raises RegexMatchError, no table is
\* kept, no call of the plan is applied and no string is returned, even
\* when the plan never calls that function.
C7_UnknownShapeFails ==
    \A t \in Threads :
        LET defs == req[t].js.obj.defs
            reached == var[t] = req[t].js.obj.name
        IN  /\ (tmap[t] # EmptyMap =>
                  \A i \in 1..Len(defs) :
                      tmap[t][defs[i].name] = FirstShape(defs[i].func))
            /\ (pc[t] = "done"
                 /\ (\E i \in 1..Len(defs) : ~KnownShape(defs[i].func)) =>
                    /\ outcome[t].kind = "error"
                    /\ (reached => outcome[t].val = "RegexMatchError")
                    /\ tmap[t] = EmptyMap
                    /\ ~InCache(cache_map, MapKey(req[t].js, var[t]))
                    /\ applied[t] = <<>> /\ idx[t] = 0)

\* a decode whose plan calls only AJ and VR has failed on the unknown qq
C7_Witness ==
    /\ pc["t1"] = "done"
    /\ req["t1"] = Request(Script(PlanE2E, ObjUnknown), abcdef)
    /\ outcome["t1"] = Raise("RegexMatchError")
    /\ Count(scans, MapKey(req["t1"].js, "DE")) = 1

\* a call text that parses into (name, integer)
Parses(js_func) == js_func.var # "" /\ js_func.digits # <<>>

\* the call at position k does not parse or names no function of the table
Offends(t, k) ==
    \/ ~Parses(tplan[t][k])
    \/ tplan[t][k].name \notin DOMAIN tmap[t]

\* C8: when the call at position k is the first that does not parse or
\* that names a function absent from the table, get_signature raises at
\* that call (RegexMatchError, or ValueError from line 218, for a call that
\* does not parse; KeyError for an absent name), the calls before k and no
\* other have been applied and no string is returned; a string is returned
\* only when every call parsed and resolved.
C8_FailFast ==
    \A t \in Threads :
        pc[t] = "done" /\ tplan[t] # <<>> =>
            /\ (outcome[t].kind = "value" =>
                  /\ idx[t] > Len(tplan[t])
                  /\ \A k \in 1..Len(tplan[t]) : ~Offends(t, k))
            /\ (tplan[t][1].var = "" =>
                  outcome[t] = Raise("ValueError") /\ applied[t] = <<>>)
            /\ (idx[t] = 0 => outcome[t].kind = "error" /\ applied[t] = <<>>)
            /\ \A k \in 1..Len(tplan[t]) :
                  (/\ idx[t] >= 1
                   /\ Offends(t, k)
                   /\ \A j \in 1..(k - 1) : ~Offends(t, j)
                   /\ outcome[t] # Raise("ZeroDivisionError")) =>
                      /\ outcome[t] = Raise(IF Parses(tplan[t][k])
                                            THEN "KeyError" ELSE "RegexMatchError")
                      /\ idx[t] = k
                      /\ Len(applied[t]) = k - 1
                      /\ \A j \in 1..(k - 1) : applied[t][j].at = j

\* DE.VR(a,1) was applied, then DE.zz(a,0) found no function
C8_Witness ==
    /\ pc["t1"] = "done"
    /\ req["t1"] = Request(Script(PlanName, ObjGood), abcdef)
    /\ outcome["t1"] = Raise("KeyError")
    /\ Len(applied["t1"]) = 1

WritesAgree ==
    /\ \A k \in DOMAIN cache_sig : cache_sig'[k] = cache_sig[k]
    /\ \A k \in DOMAIN cache_map : cache_map'[k] = cache_map[k]

\* C9: with calls running in several threads and no lock on the caches,
\* under every interleaving each call ends with the outcome it has when run
\* alone, and a write to a cache key that is already present stores the
\* value that is there.
C9_RaceIsHarmless ==
    /\ [](\A t \in Threads :
             pc[t] = "done" =>
                 outcome[t] = get_signature(req[t].js, req[t].ciphered_signature))
    /\ [][WritesAgree]_vars

\* two threads decoded the same pair at once: the table was built twice, one
\* string is stored and returned, the other is about to be stored over it
C9_Witness ==
    /\ pc["t1"] = "done" /\ outcome["t1"].kind = "value"
    /\ pc["t2"] = "sig_store"
    /\ req["t1"] = req["t2"]
    /\ Count(scans, MapKey(req["t1"].js, var["t1"])) = 2
    /\ InCache(cache_sig, SigKey(req["t2"].js, req["t2"].ciphered_signature))

====
